---- MODULE Spec2Model ----
(***************************************************************************)
(* SpecGate: the response interception hook of the validating proxy        *)
(* (src/proxy.go).  Strings are sequences of one-character strings so that *)
(* strings.Contains, strings.ToLower, strconv.ParseInt, strconv.Itoa and   *)
(* json.Marshal are computed, not assumed.  A body is a range of the bytes *)
(* the upstream produced (from, to) or a literal byte string built by the  *)
(* proxy, so bodies around the 10 MiB ceiling are represented exactly.     *)
(*                                                                         *)
(* Spec is the proxy: its construction and the handling of responses.      *)
(* SpecCalls calls parseMode and isUndocumentedEndpoint on their own.      *)
(* SpecHandlers derives ColoredHandlers and writes records through them.   *)
(***************************************************************************)
EXTENDS Integers, Sequences, FiniteSets, TLC

(***************************************************************************)
(* Bounds of the model.                                                    *)
(***************************************************************************)
\* body sizes maxSize-Margin .. maxSize+Margin are explored around the ceiling
Margin == 1

(***************************************************************************)
(* String literals of the program.                                         *)
(***************************************************************************)
applicationJson == <<"a","p","p","l","i","c","a","t","i","o","n","/","j","s","o","n">>
msgTooLarge == <<"R","e","s","p","o","n","s","e"," ","t","o","o"," ","l","a","r","g","e",","," ","s","k","i","p","p","i","n","g"," ","v","a","l","i","d","a","t","i","o","n">>
msgUndocumented == <<"U","n","d","o","c","u","m","e","n","t","e","d"," ","e","n","d","p","o","i","n","t">>
msgErrorFindingRoute == <<"E","r","r","o","r"," ","f","i","n","d","i","n","g"," ","r","o","u","t","e">>
msgValidationFailed == <<"R","e","s","p","o","n","s","e"," ","v","a","l","i","d","a","t","i","o","n"," ","f","a","i","l","e","d">>
routeFindingPrefix == <<"r","o","u","t","e"," ","f","i","n","d","i","n","g"," ","e","r","r","o","r",":"," ">>

\* variant: the last phrasing is missing
undocumentedPatterns_WithoutUnknownPath == <<
    <<"n","o"," ","m","a","t","c","h","i","n","g"," ","o","p","e","r","a","t","i","o","n">>,
    <<"p","a","t","h"," ","n","o","t"," ","f","o","u","n","d">>,
    <<"n","o"," ","r","o","u","t","e"," ","f","o","u","n","d">>,
    <<"o","p","e","r","a","t","i","o","n"," ","n","o","t"," ","f","o","u","n","d">>,
    <<"n","o"," ","m","a","t","c","h"," ","f","o","u","n","d">> >>

undocumentedPatterns == <<
    <<"n","o"," ","m","a","t","c","h","i","n","g"," ","o","p","e","r","a","t","i","o","n">>,
    <<"p","a","t","h"," ","n","o","t"," ","f","o","u","n","d">>,
    <<"n","o"," ","r","o","u","t","e"," ","f","o","u","n","d">>,
    <<"o","p","e","r","a","t","i","o","n"," ","n","o","t"," ","f","o","u","n","d">>,
    <<"n","o"," ","m","a","t","c","h"," ","f","o","u","n","d">>,
    <<"u","n","k","n","o","w","n"," ","p","a","t","h">> >>

ModeStrict == <<"s","t","r","i","c","t">>
ModeWarn == <<"w","a","r","n">>
ModeReport == <<"r","e","p","o","r","t">>
Modes == {ModeStrict, ModeWarn, ModeReport}

\* const maxSize = 10 * 1024 * 1024
maxSize == 10 * 1024 * 1024

(***************************************************************************)
(* strings: ToLower, Contains.                                             *)
(***************************************************************************)
UpperLetters == <<"A","B","C","D","E","F","G","H","I","J","K","L","M","N","O","P","Q","R","S","T","U","V","W","X","Y","Z">>
LowerLetters == <<"a","b","c","d","e","f","g","h","i","j","k","l","m","n","o","p","q","r","s","t","u","v","w","x","y","z">>

ToLowerChar(c) ==
    IF \E i \in 1..26 : UpperLetters[i] = c
    THEN LowerLetters[CHOOSE i \in 1..26 : UpperLetters[i] = c]
    ELSE c

ToLower(s) == [i \in 1..Len(s) |-> ToLowerChar(s[i])]

Contains(s, substr) ==
    \E i \in 0..(Len(s) - Len(substr)) : SubSeq(s, i + 1, i + Len(substr)) = substr

(***************************************************************************)
(* strconv: ParseInt(s, 10, 64) and Itoa.  An int64 is kept as sign and    *)
(* decimal magnitude (no leading zeros), so that 64-bit values outside the *)
(* model checker's integers are still parsed, range-checked and compared   *)
(* exactly.                                                                *)
(***************************************************************************)
DigitChars == <<"0","1","2","3","4","5","6","7","8","9">>

IsDigit(c) == \E i \in 1..10 : DigitChars[i] = c

DigitVal(c) == (CHOOSE i \in 1..10 : DigitChars[i] = c) - 1

RECURSIVE StripZeros(_)
StripZeros(ds) ==
    IF Len(ds) > 1 /\ ds[1] = "0" THEN StripZeros(Tail(ds)) ELSE ds

\* a < b for digit strings of equal length
RECURSIVE LexLess(_, _)
LexLess(a, b) ==
    IF a = <<>> THEN FALSE
    ELSE IF DigitVal(a[1]) # DigitVal(b[1]) THEN DigitVal(a[1]) < DigitVal(b[1])
    ELSE LexLess(Tail(a), Tail(b))

\* a < b for magnitudes without leading zeros
MagLess(a, b) ==
    \/ Len(a) < Len(b)
    \/ Len(a) = Len(b) /\ LexLess(a, b)

\* 1<<63, the magnitude of the smallest int64
TwoTo63 == <<"9","2","2","3","3","7","2","0","3","6","8","5","4","7","7","5","8","0","8">>

RECURSIVE Digits(_)
Digits(n) ==
    IF n < 10 THEN <<DigitChars[n + 1]>>
    ELSE Append(Digits(n \div 10), DigitChars[(n % 10) + 1])

\* the int64 value of a model integer
Int64(n) ==
    IF n < 0 THEN [neg |-> TRUE, mag |-> Digits(-n)]
    ELSE [neg |-> FALSE, mag |-> Digits(n)]

\* x > n for an int64 x and a non-negative model integer n
Int64Greater(x, n) ==
    /\ ~x.neg
    /\ MagLess(Digits(n), x.mag)

Itoa(n) == IF n < 0 THEN <<"-">> \o Digits(-n) ELSE Digits(n)

\* the decimal text of an int64, as %v prints it
Itoa64(x) == IF x.neg THEN <<"-">> \o x.mag ELSE x.mag

ParseIntSyntaxError(s) ==
    LET body == IF s # <<>> /\ s[1] \in {"+", "-"} THEN Tail(s) ELSE s
    IN  \/ s = <<>>
        \/ body = <<>>
        \/ \E i \in 1..Len(body) : ~IsDigit(body[i])

ParseInt(s) ==
    IF ParseIntSyntaxError(s) THEN [err |-> "syntax", val |-> Int64(0)]
    ELSE
        LET neg == s[1] = "-"
            body == IF s[1] \in {"+", "-"} THEN Tail(s) ELSE s
            mag == StripZeros(body)
            isZero == mag = <<"0">>
            outOfRange == IF neg THEN MagLess(TwoTo63, mag) ELSE ~MagLess(mag, TwoTo63)
        IN  IF outOfRange THEN [err |-> "range", val |-> Int64(0)]
            ELSE [err |-> "nil", val |-> [neg |-> neg /\ ~isZero, mag |-> mag]]

(***************************************************************************)
(* http.Header: canonical key -> list of values; the empty list is an      *)
(* absent key.                                                             *)
(***************************************************************************)
HeaderKeys == {"Content-Type", "Content-Length", "Content-Encoding",
               "Transfer-Encoding", "Etag", "Last-Modified", "X-Request-Id"}

HeaderGet(h, k) == IF h[k] = <<>> THEN <<>> ELSE h[k][1]

HeaderSet(h, k, v) == [h EXCEPT ![k] = <<v>>]

HeaderDel(h, k) == [h EXCEPT ![k] = <<>>]

(***************************************************************************)
(* encoding/json: Marshal of a map[string]string.  Keys are written in     *)
(* sorted order; string values are quoted with the HTML-safe escaping that *)
(* json.Marshal applies.                                                   *)
(***************************************************************************)
EscapeChar(c) ==
    CASE c = "\"" -> <<"\\", "\"">>
      [] c = "\\" -> <<"\\", "\\">>
      [] c = "<" -> <<"\\", "u", "0", "0", "3", "c">>
      [] c = ">" -> <<"\\", "u", "0", "0", "3", "e">>
      [] c = "&" -> <<"\\", "u", "0", "0", "2", "6">>
      [] OTHER -> <<c>>

RECURSIVE EscapeString(_)
EscapeString(s) ==
    IF s = <<>> THEN <<>> ELSE EscapeChar(s[1]) \o EscapeString(Tail(s))

JsonString(s) == <<"\"">> \o EscapeString(s) \o <<"\"">>

LetterRank(c) == CHOOSE i \in 1..26 : LowerLetters[i] = c

\* a < b for keys made of lower-case letters (byte order)
RECURSIVE KeyLess(_, _)
KeyLess(a, b) ==
    IF a = <<>> THEN b # <<>>
    ELSE IF b = <<>> THEN FALSE
    ELSE IF a[1] # b[1] THEN LetterRank(a[1]) < LetterRank(b[1])
    ELSE KeyLess(Tail(a), Tail(b))

RECURSIVE MarshalMembers(_, _)
MarshalMembers(m, keys) ==
    IF keys = {} THEN <<>>
    ELSE
        LET k == CHOOSE a \in keys : \A b \in keys \ {a} : KeyLess(a, b)
            rest == keys \ {k}
        IN  JsonString(k) \o <<":">> \o JsonString(m[k])
            \o (IF rest = {} THEN <<>> ELSE <<",">> \o MarshalMembers(m, rest))

\* variant: the members are written in the order of the map literal
jsonMarshal_LiteralOrder(m) ==
    <<"{">> \o JsonString(<<"e","r","r","o","r">>) \o <<":">>
            \o JsonString(m[<<"e","r","r","o","r">>]) \o <<",">>
            \o JsonString(<<"d","e","t","a","i","l","s">>) \o <<":">>
            \o JsonString(m[<<"d","e","t","a","i","l","s">>]) \o <<"}">>

jsonMarshal(m) == <<"{">> \o MarshalMembers(m, DOMAIN m) \o <<"}">>

keyError == <<"e","r","r","o","r">>
keyDetails == <<"d","e","t","a","i","l","s">>

\* map[string]string{"error": "Response validation failed", "details": err.Error()}
errorMap(detail) ==
    [k \in {keyError, keyDetails} |->
        IF k = keyError THEN msgValidationFailed ELSE detail]

(***************************************************************************)
(* Bodies.  Bytes are a range [from, to) of what the upstream produced, or *)
(* a literal byte string; fails says the bytes are followed by a read      *)
(* error instead of EOF.                                                   *)
(***************************************************************************)
UpstreamRange(from, to, fails) ==
    [from |-> from, to |-> to, lit |-> <<>>, fails |-> fails]

Literal(bytes) == [from |-> 0, to |-> 0, lit |-> bytes, fails |-> FALSE]

ByteLen(b) == (b.to - b.from) + Len(b.lit)

NoBytes == UpstreamRange(0, 0, FALSE)

(***************************************************************************)
(* slog records as the hook emits them: level, message, ordered attributes *)
(* (key, kind of value, the value's text).                                 *)
(***************************************************************************)
Attr(key, kind, text) == [key |-> key, kind |-> kind, text |-> text]

LogRecord(level, msg, attrs) == [level |-> level, msg |-> msg, attrs |-> attrs]

(***************************************************************************)
(* isUndocumentedEndpoint                                                  *)
(***************************************************************************)
NilError == [nil |-> TRUE, msg |-> <<>>]

Error(msg) == [nil |-> FALSE, msg |-> msg]

\* variant: the message is matched without lower-casing it
isUndocumentedEndpoint_CaseSensitive(err) ==
    IF err.nil THEN FALSE
    ELSE \E i \in 1..Len(undocumentedPatterns) :
            Contains(err.msg, undocumentedPatterns[i])

isUndocumentedEndpoint(err) ==
    IF err.nil THEN FALSE
    ELSE LET errMsg == ToLower(err.msg)
         IN  \E i \in 1..Len(undocumentedPatterns) :
                Contains(errMsg, undocumentedPatterns[i])

(***************************************************************************)
(* Inputs: the responses an upstream can hand to the hook, the outcomes of *)
(* the router and of the validator.                                        *)
(***************************************************************************)
ContentTypes == {
    <<>>,
    <<applicationJson>>,
    <<applicationJson \o <<";"," ","c","h","a","r","s","e","t","=","u","t","f","-","8">> >>,
    <<<<"t","e","x","t","/","h","t","m","l">> >>,
    << <<"A","p","p","l","i","c","a","t","i","o","n","/","J","S","O","N">> >>,
    << <<"t","e","x","t","/","h","t","m","l">>, applicationJson >> }

\* the Len of a body stream that never ends
Endless == -1

BodyLens == {0, 1, 2 * maxSize, Endless} \cup ((maxSize - Margin)..(maxSize + Margin))

ContentLengths(n) == {
    <<>>,
    <<Itoa(n)>>,
    <<Itoa(maxSize)>>,
    <<Itoa(maxSize + 1)>>,
    <<<<"+">> \o Itoa(maxSize + 1)>>,
    <<<<"2","0","9","7","1","5","2","0">> >>,
    << <<"a","b","c">> >>,
    << <<"-","1">> >>,
    <<TwoTo63>> }

EntityHeaders == {
    [k \in HeaderKeys |-> <<>>],
    [k \in HeaderKeys |->
        CASE k = "Content-Encoding" -> << <<"g","z","i","p">> >>
          [] k = "Transfer-Encoding" -> << <<"c","h","u","n","k","e","d">> >>
          [] k = "Etag" -> << <<"1","2","3","4","5","6">> >>
          [] k = "Last-Modified" -> << <<"M","o","n">> >>
          [] k = "X-Request-Id" -> << <<"r","1">> >>
          [] OTHER -> <<>>] }

\* body streams: length, whether they end in a read error, and how it shows
BodyStreams ==
    { s \in BodyLens \X {<<FALSE, FALSE>>, <<TRUE, FALSE>>, <<TRUE, TRUE>>} :
        s[1] = Endless => ~s[2][1] }

UpstreamResponses ==
    { [StatusCode |-> s,
       Header |-> [e EXCEPT !["Content-Type"] = ct, !["Content-Length"] = cl],
       Len |-> b[1], Fails |-> b[2][1], ErrWithData |-> b[2][2]] :
         s \in {200, 404}, e \in EntityHeaders, ct \in ContentTypes,
         b \in BodyStreams,
         cl \in UNION {ContentLengths(m) : m \in BodyLens \ {Endless}} }

\* errors router.FindRoute can return
RouteErrors == {
    Error(<<"n","o"," ","m","a","t","c","h","i","n","g"," ","o","p","e","r","a","t","i","o","n"," ","w","a","s"," ","f","o","u","n","d">>),
    Error(<<"m","e","t","h","o","d"," ","n","o","t"," ","a","l","l","o","w","e","d">>),
    Error(<<"N","o"," ","R","o","u","t","e"," ","F","o","u","n","d">>),
    Error(<<"c","o","n","n","e","c","t","i","o","n"," ","r","e","f","u","s","e","d">>),
    Error(<<>>) }

\* contract violations openapi3filter.ValidateResponse can report
Violations == {
    Error(<<"f","i","e","l","d"," ","'","i","d","'"," ","r","e","q","u","i","r","e","d">>),
    Error(<<"a","\"","<","b">>) }

\* ctx.Err() of a cancelled request context
ctxCanceled == Error(<<"c","o","n","t","e","x","t"," ","c","a","n","c","e","l","e","d">>)

\* the error a failed body read returns
readError == Error(<<"u","n","e","x","p","e","c","t","e","d"," ","E","O","F">>)

(***************************************************************************)
(* State.                                                                  *)
(***************************************************************************)
VARIABLES
    args,       \* the arguments NewValidatingProxy is called with
    newErr,     \* the error NewValidatingProxy returned
    fn,         \* a call of a pure function: its name, argument and result
    handlers,   \* the ColoredHandler values that exist, in order of creation
    arrays,     \* the backing arrays of the handlers' attrs slices
    output,     \* the lines written to the handlers' output sink
    vp,         \* the ValidatingProxy: mode, router, upstream
    upstream,   \* the response as the upstream produced it
    request,    \* resp.Request: Method, URL.Path
    resp,       \* the *http.Response the hook works on: StatusCode, Header, Body
    streamPos,  \* bytes consumed from the upstream's one-shot body stream
    bodyBytes,  \* the hook's buffer (NoBytes until the body is read)
    routeErr,   \* err of router.FindRoute
    validation, \* the validator's call: its err, the body it read, ctx state
    ctxDone,    \* resp.Request.Context() is cancelled
    logs,       \* records handed to vp.logger, in order
    calls,      \* collaborators invoked by the hook, in order
    pc,         \* position of the hook / of ReverseProxy.ServeHTTP
    ret,        \* the error validateResponse returned
    client      \* what ReverseProxy.ServeHTTP wrote to the client

vars == <<args, newErr, fn, handlers, arrays, output, vp, upstream, request,
          resp, streamPos, bodyBytes, routeErr, validation, ctxDone, logs,
          calls, pc, ret, client>>

\* the state of one response's interception
responseVars == <<upstream, request, resp, streamPos, bodyBytes, routeErr,
                  validation, ctxDone, logs, calls, ret, client>>

\* the proxy and its construction
proxyVars == <<args, newErr, vp>>

\* the state of the function calls and of the logging handlers
libraryVars == <<fn, handlers, arrays, output>>

\* resp.Body readers: the upstream stream, or a bytes.Reader over a buffer
\* (id names the reader value, bytes is what it has not yet returned)
StreamBody == [kind |-> "stream", bytes |-> NoBytes, id |-> "upstream"]

BytesReader(b, id) == [kind |-> "bytes", bytes |-> b, id |-> id]

\* what a reader of resp.Body gets from now on
Remaining(body, pos, up) ==
    IF body.kind = "stream"
    THEN UpstreamRange(pos, up.Len, up.Fails)
    ELSE body.bytes

\* the complete body the upstream produced
UpstreamBody(up) == UpstreamRange(0, up.Len, up.Fails)

NoValidation == [called |-> FALSE, returned |-> FALSE, err |-> NilError,
                 reader |-> StreamBody, body |-> NoBytes, ctxDone |-> FALSE]

NoClient == [got |-> "nothing", StatusCode |-> 0,
             Header |-> [k \in HeaderKeys |-> <<>>], Body |-> NoBytes]

\* the response variables before a response has arrived
NoResponse == [StatusCode |-> 0, Header |-> [k \in HeaderKeys |-> <<>>],
               Len |-> 0, Fails |-> FALSE, ErrWithData |-> FALSE]

theRequest == [Method |-> <<"G","E","T">>, Path |-> <<"/","p","e","t","s">>]

\* the response as the transport hands it to ModifyResponse
Received(u) == [StatusCode |-> u.StatusCode, Header |-> u.Header,
                Body |-> StreamBody]

NoReturn == [returned |-> FALSE, err |-> NilError]

AwaitingResponse ==
    /\ upstream = NoResponse
    /\ request = theRequest
    /\ resp = Received(NoResponse)
    /\ streamPos = 0
    /\ bodyBytes = NoBytes
    /\ routeErr = NilError
    /\ validation = NoValidation
    /\ ctxDone = FALSE
    /\ logs = <<>>
    /\ calls = <<>>
    /\ ret = NoReturn
    /\ client = NoClient

(***************************************************************************)
(* parseMode                                                               *)
(***************************************************************************)
invalidModePrefix == <<"i","n","v","a","l","i","d"," ","m","o","d","e"," ","'">>
invalidModeSuffix == <<"'",":"," ","m","u","s","t"," ","b","e"," ","o","n","e"," ","o","f"," ","'","s","t","r","i","c","t","'",","," ","'","w","a","r","n","'",","," ","o","r"," ","'","r","e","p","o","r","t","'">>

\* variant: the mode is compared without lower-casing it
parseMode_CaseSensitive(mode) ==
    IF mode \in {ModeStrict, ModeWarn, ModeReport}
    THEN [mode |-> mode, err |-> NilError]
    ELSE [mode |-> <<>>, err |-> Error(invalidModePrefix \o mode \o invalidModeSuffix)]

parseMode(mode) ==
    LET lower == ToLower(mode)
    IN  CASE lower = <<"s","t","r","i","c","t">> -> [mode |-> ModeStrict, err |-> NilError]
          [] lower = <<"w","a","r","n">> -> [mode |-> ModeWarn, err |-> NilError]
          [] lower = <<"r","e","p","o","r","t">> -> [mode |-> ModeReport, err |-> NilError]
          [] OTHER -> [mode |-> <<>>,
                       err |-> Error(invalidModePrefix \o mode \o invalidModeSuffix)]

(***************************************************************************)
(* NewValidatingProxy.  Loading the contract, url.Parse and                *)
(* gorillamux.NewRouter are collaborators: the arguments say whether each  *)
(* succeeds.                                                               *)
(***************************************************************************)
NilProxy == [exists |-> FALSE, mode |-> <<>>, router |-> "nil", upstream |-> ""]

ModeArgs == {ModeStrict, <<"W","a","R","n">>, <<"R","E","P","O","R","T">>,
             <<"i","n","v","a","l","i","d">>, <<>>}

NewArgs ==
    [mode : ModeArgs, specLoads : BOOLEAN,
     upstreamURL : {[text |-> "http://localhost:3000", parses |-> TRUE],
                    [text |-> "://localhost", parses |-> FALSE]},
     routerBuilds : BOOLEAN]

failedToLoadSpec == Error(<<"f","a","i","l","e","d"," ","t","o"," ","l","o","a","d"," ","s","p","e","c">>)
invalidUpstreamURL == Error(<<"i","n","v","a","l","i","d"," ","u","p","s","t","r","e","a","m"," ","U","R","L">>)

\* variant: the mode string is converted to a Mode without being validated
NewProxy_ModeUnchecked(a) ==
    IF ~a.specLoads THEN [err |-> failedToLoadSpec, vp |-> NilProxy]
    ELSE IF ~a.upstreamURL.parses THEN [err |-> invalidUpstreamURL, vp |-> NilProxy]
    ELSE [err |-> NilError,
          vp |-> [exists |-> TRUE, mode |-> a.mode,
                  router |-> "router", upstream |-> a.upstreamURL.text]]

\* what NewValidatingProxy(specPath, upstreamURL, mode) returns
NewProxy(a) ==
    LET parsed == parseMode(a.mode)
    IN  IF ~parsed.err.nil THEN [err |-> parsed.err, vp |-> NilProxy]
        ELSE IF ~a.specLoads THEN [err |-> failedToLoadSpec, vp |-> NilProxy]
        ELSE IF ~a.upstreamURL.parses THEN [err |-> invalidUpstreamURL, vp |-> NilProxy]
        ELSE [err |-> NilError,
              vp |-> [exists |-> TRUE, mode |-> parsed.mode,
                      router |-> IF a.routerBuilds THEN "router" ELSE "nil",
                      upstream |-> a.upstreamURL.text]]

NoCall == [op |-> "none", done |-> FALSE]

NoLibraryState ==
    /\ fn = NoCall
    /\ handlers = <<>>
    /\ arrays = <<>>
    /\ output = <<>>

Init ==
    /\ args \in NewArgs
    /\ newErr = NilError
    /\ vp = NilProxy
    /\ pc = "new"
    /\ AwaitingResponse
    /\ NoLibraryState

\* main: proxy, err := NewValidatingProxy(...); err != nil is fatal
NewValidatingProxy ==
    /\ pc = "new"
    /\ LET r == NewProxy(args)
       IN  /\ newErr' = r.err
           /\ vp' = r.vp
           /\ pc' = IF r.err.nil THEN "idle" ELSE "failed"
    /\ UNCHANGED <<args, responseVars, libraryVars>>

\* ServeHTTP: the upstream has answered and ModifyResponse is about to run
ServeHTTP ==
    /\ pc = "idle"
    /\ \E u \in UpstreamResponses :
        /\ upstream' = u
        /\ resp' = Received(u)
    /\ pc' = "start"
    /\ UNCHANGED <<proxyVars, libraryVars, request, streamPos, bodyBytes,
                   routeErr, validation, ctxDone, logs, calls, ret, client>>

Return(err) ==
    /\ pc' = "returned"
    /\ ret' = [returned |-> TRUE, err |-> err]

(***************************************************************************)
(* validateResponse, lines 127-138: the content type and declared length   *)
(* gates.                                                                  *)
(***************************************************************************)
\* variant: the content type is matched in any letter case
IsJSON_AnyCase(header) ==
    Contains(ToLower(HeaderGet(header, "Content-Type")), applicationJson)

IsJSON(header) == Contains(HeaderGet(header, "Content-Type"), applicationJson)

\* variant: the declared length is not consulted (the body is always read)
DeclaredTooLarge_Unchecked(header) == FALSE

DeclaredTooLarge(header) ==
    LET contentLength == HeaderGet(header, "Content-Length")
        parsed == ParseInt(contentLength)
    IN  /\ contentLength # <<>>
        /\ parsed.err = "nil"
        /\ Int64Greater(parsed.val, maxSize)

TooLargeRecord(size) ==
    LogRecord("WARN", msgTooLarge, <<Attr("size", "int64", size)>>)

CheckEligibility ==
    /\ pc = "start"
    /\ IF ~IsJSON(resp.Header)
       THEN /\ Return(NilError)
            /\ UNCHANGED logs
       ELSE IF DeclaredTooLarge(resp.Header)
       THEN /\ logs' = Append(logs, TooLargeRecord(
                    Itoa64(ParseInt(HeaderGet(resp.Header, "Content-Length")).val)))
            /\ Return(NilError)
       ELSE /\ pc' = "read"
            /\ UNCHANGED <<ret, logs>>
    /\ UNCHANGED <<vp, upstream, request, resp, streamPos, bodyBytes, routeErr,
                   validation, ctxDone, calls, client>>
    /\ UNCHANGED <<args, newErr, libraryVars>>


(***************************************************************************)
(* validateResponse, lines 140-151: the bounded read.  io.ReadAll over     *)
(* io.LimitReader(resp.Body, maxSize+1) consumes up to maxSize+1 bytes of  *)
(* the stream.  A failing stream reports its error when asked for a byte   *)
(* past its last one, or, if ErrWithData, together with its last bytes.    *)
(***************************************************************************)
Min(a, b) == IF a < b THEN a ELSE b

\* bytes io.ReadAll(limited) returns
ReadCount(up, pos) ==
    IF up.Len = Endless THEN maxSize + 1 ELSE Min(up.Len - pos, maxSize + 1)

\* variant: the error io.ReadAll returns is dropped
ReadFails_Ignored(up, pos) == FALSE

\* io.ReadAll(limited) returns a non-nil err
ReadFails(up, pos) ==
    /\ up.Fails
    /\ up.Len # Endless
    /\ \/ up.Len - pos < maxSize + 1
       \/ up.Len - pos = maxSize + 1 /\ up.ErrWithData


\* variant: the size of the bytes read is not tested
ActualTooLarge_Never(n) == FALSE

\* variant: a body of exactly maxSize bytes counts as too large
ActualTooLarge_AtLimit(n) == n >= maxSize

\* len(bodyBytes) > maxSize
ActualTooLarge(n) == n > maxSize

ReadBody ==
    /\ pc = "read"
    /\ LET n == ReadCount(upstream, streamPos)
       IN  /\ streamPos' = streamPos + n
           /\ calls' = Append(calls, "Read")
           /\ IF ReadFails(upstream, streamPos)
              THEN /\ Return(readError)
                   /\ UNCHANGED <<bodyBytes, resp, logs>>
              ELSE IF ActualTooLarge(n)
              THEN /\ logs' = Append(logs, TooLargeRecord(Itoa(n)))
                   /\ Return(NilError)
                   /\ UNCHANGED <<bodyBytes, resp>>
              ELSE /\ bodyBytes' = UpstreamRange(streamPos, streamPos + n, FALSE)
                   /\ resp' = [resp EXCEPT !.Body = BytesReader(bodyBytes', "resp.Body")]
                   /\ pc' = "findRoute"
                   /\ UNCHANGED <<ret, logs>>
    /\ UNCHANGED <<vp, upstream, request, routeErr, validation, ctxDone, client>>
    /\ UNCHANGED <<args, newErr, libraryVars>>

(***************************************************************************)
(* validateResponse, lines 153-167: route resolution.  vp.router is the    *)
(* value gorillamux.NewRouter returned; its error is dropped at            *)
(* construction, so the router can be nil, and calling it panics.          *)
(***************************************************************************)
UndocumentedRecord(req) ==
    LogRecord("WARN", msgUndocumented,
        <<Attr("method", "string", req.Method), Attr("path", "string", req.Path)>>)

RouteErrorRecord(err, req) ==
    LogRecord("ERROR", msgErrorFindingRoute,
        <<Attr("error", "error", err.msg), Attr("method", "string", req.Method),
          Attr("path", "string", req.Path)>>)

\* fmt.Errorf("route finding error: %w", err)
WrapRouteError(err) == Error(routeFindingPrefix \o err.msg)

FindRoute ==
    /\ pc = "findRoute"
    /\ calls' = Append(calls, "FindRoute")
    /\ IF vp.router = "nil"
       THEN /\ pc' = "panicked"
            /\ UNCHANGED <<routeErr, logs, ret>>
       ELSE \E err \in RouteErrors \cup {NilError} :
            /\ routeErr' = err
            /\ IF err.nil
               THEN /\ pc' = "validate"
                    /\ UNCHANGED <<logs, ret>>
               ELSE IF isUndocumentedEndpoint(err)
               THEN /\ logs' = Append(logs, UndocumentedRecord(request))
                    /\ Return(NilError)
               ELSE /\ logs' = Append(logs, RouteErrorRecord(err, request))
                    /\ Return(WrapRouteError(err))
    /\ UNCHANGED <<vp, upstream, request, resp, streamPos, bodyBytes,
                   validation, ctxDone, client>>
    /\ UNCHANGED <<args, newErr, libraryVars>>

(***************************************************************************)
(* validateResponse, lines 169-186: the validator is handed its own reader *)
(* over bodyBytes and the request's context.                               *)
(***************************************************************************)
\* variant: the validator is handed the response's own body reader
ValidationReader_Shared(r, b) == r.Body

\* lines 169-171: validationReader := io.NopCloser(bytes.NewReader(bodyBytes))
ValidationReader(r, b) == BytesReader(b, "validationReader")

\* a reader after whoever holds the reader `read` has read it to its end
Drained(body, read) ==
    IF body.id = read.id THEN [body EXCEPT !.bytes = NoBytes] ELSE body

CallValidator ==
    /\ pc = "validate"
    /\ calls' = Append(calls, "ValidateResponse")
    /\ validation' = [NoValidation EXCEPT !.called = TRUE,
                                          !.reader = ValidationReader(resp, bodyBytes),
                                          !.ctxDone = ctxDone]
    /\ pc' = "validating"
    /\ UNCHANGED <<vp, upstream, request, resp, streamPos, bodyBytes, routeErr,
                   ctxDone, logs, ret, client>>
    /\ UNCHANGED <<args, newErr, libraryVars>>

\* what openapi3filter.ValidateResponse(ctx, input) can return: nil, a
\* contract violation, or, once ctx is cancelled, ctx's error
ValidatorResults(done) ==
    {NilError} \cup Violations \cup (IF done THEN {ctxCanceled} ELSE {})

(***************************************************************************)
(* validateResponse, lines 186-213: the enforcement policy.                *)
(***************************************************************************)
ValidationFailedRecord(err, req, status) ==
    LogRecord("ERROR", msgValidationFailed,
        <<Attr("error", "error", err.msg), Attr("method", "string", req.Method),
          Attr("path", "string", req.Path), Attr("status", "int", Itoa(status))>>)

\* variant: only body and status are replaced, the headers are left alone
RewriteAsError_StatusAndBodyOnly(r, err) ==
    [r EXCEPT !.StatusCode = 500,
              !.Body = BytesReader(Literal(jsonMarshal(errorMap(err.msg))), "errorBody")]

\* lines 194-209: the response rewritten as the validation error
RewriteAsError(r, err) ==
    LET errorBody == jsonMarshal(errorMap(err.msg))
        h1 == HeaderSet(r.Header, "Content-Type", applicationJson)
        h2 == HeaderSet(h1, "Content-Length", Itoa(Len(errorBody)))
        h3 == HeaderDel(h2, "Content-Encoding")
        h4 == HeaderDel(h3, "Transfer-Encoding")
        h5 == HeaderDel(h4, "Etag")
        h6 == HeaderDel(h5, "Last-Modified")
    IN  [StatusCode |-> 500, Header |-> h6, Body |-> BytesReader(Literal(errorBody), "errorBody")]

\* variant: every mode but Report enforces
Enforces_UnlessReport(mode) == mode # ModeReport

\* line 193
Enforces(mode) == mode = ModeStrict

Enforce(r, mode, err) ==
    IF Enforces(mode) THEN RewriteAsError(r, err) ELSE r

ValidatorReturns ==
    /\ pc = "validating"
    /\ \E err \in ValidatorResults(ctxDone) :
        /\ validation' = [validation EXCEPT !.returned = TRUE, !.err = err,
                                            !.body = validation.reader.bytes,
                                            !.ctxDone = ctxDone]
        /\ LET read == [resp EXCEPT !.Body = Drained(resp.Body, validation.reader)]
           IN  IF ~err.nil
               THEN /\ logs' = Append(logs,
                            ValidationFailedRecord(err, request, resp.StatusCode))
                    /\ resp' = Enforce(read, vp.mode, err)
               ELSE /\ resp' = read
                    /\ UNCHANGED logs
    /\ Return(NilError)
    /\ UNCHANGED <<vp, upstream, request, streamPos, bodyBytes, routeErr,
                   ctxDone, calls, client>>
    /\ UNCHANGED <<args, newErr, libraryVars>>

(***************************************************************************)
(* The inbound request's context is cancelled (client disconnect, deadline)*)
(* at any moment while the hook runs.                                      *)
(***************************************************************************)
Cancel ==
    /\ pc \in {"start", "read", "findRoute", "validate", "validating"}
    /\ ~ctxDone
    /\ ctxDone' = TRUE
    /\ UNCHANGED <<vp, upstream, request, resp, streamPos, bodyBytes, routeErr,
                   validation, logs, calls, pc, ret, client>>
    /\ UNCHANGED <<args, newErr, libraryVars>>

(***************************************************************************)
(* httputil.ReverseProxy.ServeHTTP after ModifyResponse (no ErrorHandler   *)
(* is configured): on a nil error the response's status, headers and the   *)
(* rest of resp.Body are copied to the client; on an error the body is     *)
(* closed and the default error handler answers 502 Bad Gateway; a panic   *)
(* of the hook aborts the exchange.                                        *)
(***************************************************************************)
Delivered(r, pos, up) ==
    [got |-> "response", StatusCode |-> r.StatusCode, Header |-> r.Header,
     Body |-> Remaining(r.Body, pos, up)]

BadGateway == [NoClient EXCEPT !.got = "error", !.StatusCode = 502]

Deliver ==
    /\ pc = "returned"
    /\ client' = IF ret.err.nil THEN Delivered(resp, streamPos, upstream)
                 ELSE BadGateway
    /\ pc' = "delivered"
    /\ UNCHANGED <<vp, upstream, request, resp, streamPos, bodyBytes, routeErr,
                   validation, ctxDone, logs, calls, ret>>
    /\ UNCHANGED <<args, newErr, libraryVars>>

Abort ==
    /\ pc = "panicked"
    /\ client' = [NoClient EXCEPT !.got = "aborted"]
    /\ pc' = "delivered"
    /\ UNCHANGED <<vp, upstream, request, resp, streamPos, bodyBytes, routeErr,
                   validation, ctxDone, logs, calls, ret>>
    /\ UNCHANGED <<args, newErr, libraryVars>>

\* the exchange is over; the proxy waits for the next response
Finish ==
    /\ pc = "delivered"
    /\ pc' = "idle"
    /\ upstream' = NoResponse
    /\ resp' = Received(NoResponse)
    /\ streamPos' = 0
    /\ bodyBytes' = NoBytes
    /\ routeErr' = NilError
    /\ validation' = NoValidation
    /\ ctxDone' = FALSE
    /\ logs' = <<>>
    /\ calls' = <<>>
    /\ ret' = NoReturn
    /\ client' = NoClient
    /\ UNCHANGED <<proxyVars, libraryVars, request>>

Next ==
    \/ NewValidatingProxy
    \/ ServeHTTP
    \/ CheckEligibility
    \/ ReadBody
    \/ FindRoute
    \/ CallValidator
    \/ ValidatorReturns
    \/ Cancel
    \/ Deliver
    \/ Abort
    \/ Finish

Spec == Init /\ [][Next]_vars

(***************************************************************************)
(* parseMode and isUndocumentedEndpoint called directly, as the tests      *)
(* TestParseMode and TestIsUndocumentedEndpoint do, on strings over the    *)
(* ASCII letters, digits, space and punctuation.                           *)
(***************************************************************************)
ToUpperChar(c) ==
    IF \E i \in 1..26 : LowerLetters[i] = c
    THEN UpperLetters[CHOOSE i \in 1..26 : LowerLetters[i] = c]
    ELSE c

\* every spelling of word in upper- and lower-case letters
RECURSIVE CaseVariants(_)
CaseVariants(word) ==
    IF word = <<>> THEN {<<>>}
    ELSE { <<c>> \o rest : c \in {word[1], ToUpperChar(word[1])},
                           rest \in CaseVariants(Tail(word)) }

ToUpper(s) == [i \in 1..Len(s) |-> ToUpperChar(s[i])]

\* s with every second letter in upper case
Alternating(s) == [i \in 1..Len(s) |-> IF i % 2 = 0 THEN ToUpperChar(s[i]) ELSE s[i]]

\* mode strings that are no spelling of a mode
OtherModes == {
    <<>>,
    <<"i","n","v","a","l","i","d">>,
    <<"d","e","b","u","g">>,
    <<"s","t","r","i","c">>,
    <<"s","t","r","i","c","t","t">>,
    <<" ","s","t","r","i","c","t">>,
    <<"w","a","r","n"," ">>,
    <<"w","a","r","n","i","n","g">>,
    <<"W","A","R","N","I","N","G">>,
    <<"r","e","p","o","r","t","s">>,
    <<"R","e","p","o","r","t","-","o","n","l","y">>,
    <<"s","t","r","1","c","t">>,
    <<"s">>,
    <<"S","T","R","I","C","T",",","w","a","r","n">> }

ModeStrings ==
    CaseVariants(ModeStrict) \cup CaseVariants(ModeWarn)
        \cup CaseVariants(ModeReport) \cup OtherModes

\* texts put before and after a phrasing
Prefixes == {<<>>, <<"r","o","u","t","e","r",":"," ">>}
Suffixes == {<<>>, <<" ","f","o","r"," ","G","E","T"," ","/","p","e","t","s">>}

\* the phrasings of an undocumented endpoint
Phrasings == {
    <<"n","o"," ","m","a","t","c","h","i","n","g"," ","o","p","e","r","a","t","i","o","n">>,
    <<"p","a","t","h"," ","n","o","t"," ","f","o","u","n","d">>,
    <<"n","o"," ","r","o","u","t","e"," ","f","o","u","n","d">>,
    <<"o","p","e","r","a","t","i","o","n"," ","n","o","t"," ","f","o","u","n","d">>,
    <<"n","o"," ","m","a","t","c","h"," ","f","o","u","n","d">>,
    <<"u","n","k","n","o","w","n"," ","p","a","t","h">> }

\* errors whose message holds one of the six phrasings in some spelling
UndocumentedErrors ==
    { Error(pre \o spell \o suf) :
        pre \in Prefixes, suf \in Suffixes,
        spell \in UNION { {ph, ToUpper(ph), Alternating(ph)} : ph \in Phrasings } }

\* errors whose message holds none of them
OtherErrors == {
    Error(<<>>),
    Error(<<"c","o","n","n","e","c","t","i","o","n"," ","r","e","f","u","s","e","d">>),
    Error(<<"m","e","t","h","o","d"," ","n","o","t"," ","a","l","l","o","w","e","d">>),
    Error(<<"i","n","v","a","l","i","d"," ","r","e","q","u","e","s","t">>),
    Error(<<"n","o"," ","m","a","t","c","h","i","n","g"," ","o","p","e","r","a","t","i","o">>),
    Error(<<"p","a","t","h"," "," ","n","o","t"," ","f","o","u","n","d">>),
    Error(<<"n","o","r","o","u","t","e","f","o","u","n","d">>),
    Error(<<"o","p","e","r","a","t","i","o","n"," ","n","o","t"," ","a","l","l","o","w","e","d">>),
    Error(<<"m","a","t","c","h"," ","f","o","u","n","d">>),
    Error(<<"u","n","k","n","o","w","n"," ","h","o","s","t">>),
    Error(<<"n","o","t"," ","f","o","u","n","d">>),
    Error(<<"p","a","t","h","_","n","o","t","_","f","o","u","n","d">>) }

ErrorValues == {NilError} \cup UndocumentedErrors \cup OtherErrors

\* the proxy is not under construction and handles nothing
ProxyUnused ==
    /\ args = [mode |-> ModeStrict, specLoads |-> TRUE,
               upstreamURL |-> [text |-> "http://localhost:3000", parses |-> TRUE],
               routerBuilds |-> TRUE]
    /\ newErr = NilError
    /\ vp = NilProxy
    /\ pc = "unused"
    /\ AwaitingResponse

InitCalls ==
    /\ ProxyUnused
    /\ NoLibraryState

CallParseMode ==
    /\ \E mode \in ModeStrings :
        fn' = [op |-> "parseMode", done |-> TRUE, arg |-> mode,
               result |-> parseMode(mode)]
    /\ UNCHANGED <<proxyVars, responseVars, pc, handlers, arrays, output>>

CallIsUndocumentedEndpoint ==
    /\ \E err \in ErrorValues :
        fn' = [op |-> "isUndocumentedEndpoint", done |-> TRUE, arg |-> err,
               result |-> isUndocumentedEndpoint(err)]
    /\ UNCHANGED <<proxyVars, responseVars, pc, handlers, arrays, output>>

NextCalls ==
    \/ CallParseMode
    \/ CallIsUndocumentedEndpoint

SpecCalls == InitCalls /\ [][NextCalls]_vars

(***************************************************************************)
(* ColoredHandler.  A handler's attrs field is a slice: a backing array    *)
(* (index into arrays, 0 for nil) and a length; the array's length is the  *)
(* slice's capacity.  handlers lists every handler created, with the       *)
(* handler it was derived from and the attributes supplied (0 and none     *)
(* for the handler NewValidatingProxy builds).                             *)
(***************************************************************************)
\* handlers that exist at once, the base handler included
MaxHandlers == 5

colorReset == "\\033[0m"
colorRed == "\\033[31m"
colorYellow == "\\033[33m"
colorGreen == "\\033[32m"
colorBlue == "\\033[34m"
colorGray == "\\033[90m"

\* slog.Level.String() of the levels used
LevelDebug == <<"D","E","B","U","G">>
LevelInfo == <<"I","N","F","O">>
LevelWarn == <<"W","A","R","N">>
LevelError == <<"E","R","R","O","R">>
LevelWarnPlus1 == <<"W","A","R","N","+","1">>

nilSlice == [array |-> 0, len |-> 0]

\* the elements of slice s
Elements(arrs, s) == IF s.array = 0 THEN <<>> ELSE SubSeq(arrs[s.array], 1, s.len)

Cap(arrs, s) == IF s.array = 0 THEN 0 ELSE Len(arrs[s.array])

zeroAttr == Attr("", "", <<>>)

\* variant: newAttrs := append(h.attrs, attrs...), which writes into the
\* receiver's backing array when its capacity allows
WithAttrsResult_Append(arrs, h, attrs) ==
    LET n == h.attrs.len + Len(attrs)
        cap == Cap(arrs, h.attrs)
        newCap == IF 2 * cap > n THEN 2 * cap ELSE n
    IN  IF n <= cap
        THEN [arrays |-> [arrs EXCEPT ![h.attrs.array] =
                            SubSeq(@, 1, h.attrs.len) \o attrs \o SubSeq(@, n + 1, cap)],
              handler |-> [output |-> h.output, level |-> h.level,
                           attrs |-> [array |-> h.attrs.array, len |-> n]]]
        ELSE [arrays |-> Append(arrs, Elements(arrs, h.attrs) \o attrs
                                        \o [i \in 1..(newCap - n) |-> zeroAttr]),
              handler |-> [output |-> h.output, level |-> h.level,
                           attrs |-> [array |-> Len(arrs) + 1, len |-> n]]]

\* lines 324-334: the arrays after the call and the handler returned
WithAttrsResult(arrs, h, attrs) ==
    LET newAttrs == Elements(arrs, h.attrs) \o attrs
    IN  [arrays |-> Append(arrs, newAttrs),
         handler |-> [output |-> h.output, level |-> h.level,
                      attrs |-> [array |-> Len(arrs) + 1, len |-> Len(newAttrs)]]]

\* lines 275-288
ColorOf(level) ==
    CASE level = LevelError -> colorRed
      [] level = LevelWarn -> colorYellow
      [] level = LevelInfo -> colorGreen
      [] level = LevelDebug -> colorBlue
      [] OTHER -> colorReset

\* " key=value" for each attribute, in order
RECURSIVE RenderAttrs(_)
RenderAttrs(attrs) ==
    IF attrs = <<>> THEN <<>>
    ELSE <<" ", attrs[1].key, "=">> \o attrs[1].text \o RenderAttrs(Tail(attrs))

\* variant: the handler's attributes are written before the record's
Render_BoundFirst(bound, record, timestamp) ==
    <<colorGray>> \o timestamp \o <<" ", ColorOf(record.level)>> \o record.level
        \o <<colorReset, " ">> \o record.msg
        \o RenderAttrs(bound) \o RenderAttrs(record.attrs) \o <<"\n">>

\* lines 290-318: the line Handle builds
Render(bound, record, timestamp) ==
    <<colorGray>> \o timestamp \o <<" ", ColorOf(record.level)>> \o record.level
        \o <<colorReset, " ">> \o record.msg
        \o RenderAttrs(record.attrs) \o RenderAttrs(bound) \o <<"\n">>

\* attribute lists given to WithAttrs
AttrLists == {
    <<Attr("service", "string", <<"a","p","i">>)>>,
    <<Attr("env", "string", <<"d","e","v">>)>>,
    <<Attr("upstream", "string", <<"u","p">>), Attr("port", "int", <<"8","0">>)>> }

\* records given to Handle
Records == {
    LogRecord(LevelError, msgValidationFailed,
        <<Attr("error", "error", <<"b","a","d">>), Attr("status", "int", <<"2","0","0">>)>>),
    LogRecord(LevelWarn, msgUndocumented, <<Attr("path", "string", <<"/","p">>)>>),
    LogRecord(LevelInfo, <<"s","t","a","r","t","e","d">>, <<>>),
    LogRecord(LevelDebug, <<"d","e","t","a","i","l">>,
        <<Attr("n", "int", <<"1">>)>>),
    LogRecord(LevelWarnPlus1, <<"o","d","d">>, <<>>) }

\* time.Now().Format("15:04:05")
Timestamps == {<<"0","0",":","0","0",":","0","0">>, <<"2","3",":","5","9",":","5","9">>}

\* lines 95-98
baseHandler == [output |-> "os.Stderr", level |-> LevelInfo, attrs |-> nilSlice]

InitHandlers ==
    /\ ProxyUnused
    /\ fn = NoCall
    /\ handlers = <<[h |-> baseHandler, parent |-> 0, added |-> <<>>]>>
    /\ arrays = <<>>
    /\ output = <<>>

WithAttrs ==
    /\ Len(handlers) < MaxHandlers
    /\ \E i \in 1..Len(handlers), attrs \in AttrLists :
        LET r == WithAttrsResult(arrays, handlers[i].h, attrs)
        IN  /\ arrays' = r.arrays
            /\ handlers' = Append(handlers,
                    [h |-> r.handler, parent |-> i, added |-> attrs])
    /\ UNCHANGED <<proxyVars, responseVars, pc, fn, output>>

\* output holds what the latest call wrote: the sink, the line, and the
\* call that wrote it
Handle ==
    /\ \E i \in 1..Len(handlers), record \in Records, now \in Timestamps :
        output' = <<[sink |-> handlers[i].h.output,
                     line |-> Render(Elements(arrays, handlers[i].h.attrs), record, now),
                     handler |-> i, record |-> record, now |-> now]>>
    /\ UNCHANGED <<proxyVars, responseVars, pc, fn, handlers, arrays>>

NextHandlers ==
    \/ WithAttrs
    \/ Handle

SpecHandlers == InitHandlers /\ [][NextHandlers]_vars

(***************************************************************************)
(* Terms the properties are stated in.                                     *)
(***************************************************************************)
\* the upstream's body stream holds more than maxSize bytes
BodyOverCeiling == upstream.Len = Endless \/ upstream.Len > maxSize

\* the upstream response as a client would receive it from a transparent proxy
Original == [got |-> "response", StatusCode |-> upstream.StatusCode,
             Header |-> upstream.Header, Body |-> UpstreamBody(upstream)]

UpstreamIsJSON ==
    Contains(HeaderGet(upstream.Header, "Content-Type"), applicationJson)

DeclaredSize == ParseInt(HeaderGet(upstream.Header, "Content-Length"))

DeclaredOverCeiling ==
    /\ DeclaredSize.err = "nil"
    /\ Int64Greater(DeclaredSize.val, maxSize)

ValidationFailed == validation.returned /\ ~validation.err.nil

HookReturned == pc \in {"returned", "delivered"}

WarnTooLarge(size) ==
    [level |-> "WARN", msg |-> msgTooLarge,
     attrs |-> <<[key |-> "size", kind |-> "int64", text |-> size]>>]

HasLevel(level) == \E i \in 1..Len(logs) : logs[i].level = level

\* the response in the hook's hands, as a client reading it now would see it
InHand == [got |-> "response", StatusCode |-> resp.StatusCode,
           Header |-> resp.Header,
           Body |-> Remaining(resp.Body, streamPos, upstream)]

(***************************************************************************)
(* C1.  In Strict mode, a JSON response within the ceiling whose route     *)
(* resolves and whose validation fails reaches the client with status 500, *)
(* Content-Type exactly application/json, a Content-Length equal to the    *)
(* byte length of the replacement body, and without Content-Encoding,      *)
(* Transfer-Encoding, ETag and Last-Modified, whatever the upstream sent.  *)
(***************************************************************************)
C1_StrictRewrite ==
    (pc = "delivered" /\ vp.mode = ModeStrict /\ ValidationFailed) =>
        /\ client.got = "response"
        /\ client.StatusCode = 500
        /\ client.Header["Content-Type"] = <<applicationJson>>
        /\ client.Header["Content-Length"] = <<Itoa(ByteLen(client.Body))>>
        /\ client.Body # UpstreamBody(upstream)
        /\ \A k \in {"Content-Encoding", "Transfer-Encoding", "Etag", "Last-Modified"} :
              client.Header[k] = <<>>

C1_Witness ==
    /\ pc = "delivered" /\ vp.mode = ModeStrict /\ ValidationFailed
    /\ upstream.StatusCode = 404
    /\ upstream.Header["Content-Type"] # <<applicationJson>>
    /\ upstream.Header["Etag"] # <<>>
    /\ upstream.Header["Content-Encoding"] # <<>>
    /\ upstream.Header["Content-Length"] # <<>>
    /\ client.StatusCode = 500

(***************************************************************************)
(* C2.  In Warn and Report mode a failed validation leaves status, headers *)
(* and body as the upstream sent them, and the Error record logged is the  *)
(* one Strict mode logs for the same response: in every mode it is the     *)
(* single record built from the validator's error, the request and the     *)
(* upstream status.                                                        *)
(***************************************************************************)
C2_FailedLog ==
    [level |-> "ERROR", msg |-> msgValidationFailed,
     attrs |-> <<[key |-> "error", kind |-> "error", text |-> validation.err.msg],
                 [key |-> "method", kind |-> "string", text |-> request.Method],
                 [key |-> "path", kind |-> "string", text |-> request.Path],
                 [key |-> "status", kind |-> "int", text |-> Itoa(upstream.StatusCode)]>>]

C2_WarnReportPassThrough ==
    (pc = "delivered" /\ ValidationFailed) =>
        /\ logs = <<C2_FailedLog>>
        /\ vp.mode \in {ModeWarn, ModeReport} => client = Original

C2_Witness ==
    /\ pc = "delivered" /\ ValidationFailed
    /\ vp.mode = ModeReport
    /\ upstream.Len = maxSize
    /\ upstream.Header["Etag"] # <<>>
    /\ client = Original

(***************************************************************************)
(* C3.  Whenever the hook hands the response on, its status, headers and   *)
(* body differ from what the upstream produced only if the mode is Strict  *)
(* and the validator reported a contract violation.                        *)
(***************************************************************************)
C3_OnlyStrictViolationAlters ==
    (ret.returned /\ ret.err.nil /\ InHand # Original) =>
        /\ vp.mode = ModeStrict
        /\ validation.returned
        /\ validation.err \in Violations

(***************************************************************************)
(* C4.  A JSON response whose body exceeds the ceiling, by its declared    *)
(* length or only by the bytes read, is handed on with the complete        *)
(* upstream body readable from its first byte, and a Warn record is        *)
(* logged.                                                                 *)
(***************************************************************************)
C4_OversizedBodyIntact ==
    (ret.returned /\ ret.err.nil /\ UpstreamIsJSON /\ BodyOverCeiling
        /\ ~upstream.Fails) =>
        /\ Remaining(resp.Body, streamPos, upstream) = UpstreamBody(upstream)
        /\ HasLevel("WARN")

(***************************************************************************)
(* C5.  When route resolution fails with a message matching none of the    *)
(* undocumented-endpoint patterns, the hook returns an error, an Error     *)
(* record is logged, and the client still receives the upstream response.  *)
(***************************************************************************)
C5_UnrecognizedErrors == {
    [nil |-> FALSE, msg |-> <<"m","e","t","h","o","d"," ","n","o","t"," ","a","l","l","o","w","e","d">>],
    [nil |-> FALSE, msg |-> <<"c","o","n","n","e","c","t","i","o","n"," ","r","e","f","u","s","e","d">>] }

C5_ResolverErrorFailOpen ==
    (pc = "delivered" /\ routeErr \in C5_UnrecognizedErrors) =>
        /\ ~ret.err.nil
        /\ HasLevel("ERROR")
        /\ client = Original

(***************************************************************************)
(* C6.  When route resolution fails with a message matching a known        *)
(* undocumented-endpoint pattern (in any letter case), in every mode the   *)
(* response passes through unchanged, the hook returns no error, the       *)
(* validator is not invoked, and one Warn record and no Error record is    *)
(* logged.                                                                 *)
(***************************************************************************)
C6_UndocumentedErrors == {
    [nil |-> FALSE, msg |-> <<"n","o"," ","m","a","t","c","h","i","n","g"," ","o","p","e","r","a","t","i","o","n"," ","w","a","s"," ","f","o","u","n","d">>],
    [nil |-> FALSE, msg |-> <<"N","o"," ","R","o","u","t","e"," ","F","o","u","n","d">>] }

C6_UndocumentedPassThrough ==
    (HookReturned /\ routeErr \in C6_UndocumentedErrors) =>
        /\ ret.err.nil
        /\ InHand = Original
        /\ pc = "delivered" => client = Original
        /\ ~validation.called
        /\ calls = <<"Read", "FindRoute">>
        /\ Len(logs) = 1 /\ logs[1].level = "WARN" /\ logs[1].msg = msgUndocumented
        /\ ~HasLevel("ERROR")

C6_Witness ==
    /\ pc = "delivered"
    /\ routeErr = [nil |-> FALSE, msg |-> <<"N","o"," ","R","o","u","t","e"," ","F","o","u","n","d">>]
    /\ vp.mode = ModeStrict
    /\ upstream.Len = maxSize - 1
    /\ client = Original

(***************************************************************************)
(* C7.  A response whose Content-Type does not contain "application/json"  *)
(* is, in each mode, never read, resolved or validated; status and headers *)
(* stay unchanged, the hook returns no error, and the client's body is the *)
(* upstream body byte for byte.                                            *)
(***************************************************************************)
C7_NonJSONUntouched ==
    ~UpstreamIsJSON =>
        /\ streamPos = 0
        /\ calls = <<>>
        /\ InHand = Original
        /\ pc \notin {"read", "findRoute", "validate", "validating", "panicked"}
        /\ HookReturned => ret.err.nil
        /\ pc = "delivered" => client = Original

C7_Witness ==
    /\ ~UpstreamIsJSON
    /\ pc = "delivered"
    /\ vp.mode = ModeStrict
    /\ upstream.Header["Content-Type"] =
          << <<"A","p","p","l","i","c","a","t","i","o","n","/","J","S","O","N">> >>
    /\ upstream.Len = 2 * maxSize
    /\ client = Original

(***************************************************************************)
(* C8.  A JSON response whose declared Content-Length parses to more than  *)
(* the ceiling is returned without any read of the body stream, with a     *)
(* Warn record carrying the declared size, and without invoking the        *)
(* resolver or the validator.                                              *)
(***************************************************************************)
C8_DeclaredOversizeNoRead ==
    (UpstreamIsJSON /\ DeclaredOverCeiling) =>
        /\ streamPos = 0
        /\ calls = <<>>
        /\ pc \in {"start", "returned", "delivered"}
        /\ HookReturned =>
              /\ ret.err.nil
              /\ logs = <<WarnTooLarge(Itoa64(DeclaredSize.val))>>

C8_Witness ==
    /\ UpstreamIsJSON
    /\ upstream.Header["Content-Length"] = << <<"2","0","9","7","1","5","2","0">> >>
    /\ upstream.Len = 0
    /\ pc = "delivered"
    /\ logs = <<WarnTooLarge(<<"2","0","9","7","1","5","2","0">>)>>

(***************************************************************************)
(* C9.  A JSON response whose body read does not fail is skipped for size  *)
(* exactly when its declared Content-Length parses to more than maxSize or *)
(* its stream holds more than maxSize bytes; otherwise (a body of exactly  *)
(* maxSize bytes included, whatever its Content-Length says) it is         *)
(* buffered in full.                                                       *)
(***************************************************************************)
C9_ReadFailed == ret.returned /\ ~ret.err.nil /\ calls = <<"Read">>

C9_SkippedForSize ==
    /\ HookReturned
    /\ \E i \in 1..Len(logs) : logs[i].msg = msgTooLarge
    /\ "FindRoute" \notin {calls[i] : i \in 1..Len(calls)}

C9_BufferedInFull ==
    /\ bodyBytes = [from |-> 0, to |-> upstream.Len, lit |-> <<>>, fails |-> FALSE]
    /\ calls # <<>> /\ calls[1] = "Read"
    /\ \/ pc = "findRoute"
       \/ Len(calls) >= 2 /\ calls[2] = "FindRoute"

C9_SizeBoundary ==
    (UpstreamIsJSON /\ pc \notin {"start", "read"} /\ ~C9_ReadFailed) =>
        /\ C9_SkippedForSize <=> (DeclaredOverCeiling \/ BodyOverCeiling)
        /\ ~C9_SkippedForSize => C9_BufferedInFull

C9_Witness ==
    /\ UpstreamIsJSON
    /\ upstream.Len = maxSize
    /\ upstream.Header["Content-Length"] = <<Itoa(maxSize)>>
    /\ pc = "delivered"
    /\ C9_BufferedInFull

(***************************************************************************)
(* C10.  If the request's context is cancelled before the validator has    *)
(* returned, no enforcement action is taken: in every mode the response    *)
(* is handed on as the upstream produced it.                               *)
(***************************************************************************)
C10_CancelledNoEnforcement ==
    (HookReturned /\ validation.returned /\ validation.ctxDone) =>
        InHand = Original

(***************************************************************************)
(* C11.  When reading the body of a JSON response fails before more than   *)
(* maxSize bytes have been read, the hook returns the read error: route    *)
(* resolution and the validator are not called, no validation-failure      *)
(* record is logged, the response keeps the upstream's status and headers  *)
(* in every mode, and the client is answered by the transport's error      *)
(* handling.                                                               *)
(***************************************************************************)
C11_ReadFailsBelowCeiling ==
    /\ UpstreamIsJSON
    /\ ~DeclaredOverCeiling
    /\ upstream.Fails
    /\ upstream.Len # Endless
    /\ upstream.Len <= maxSize

C11_ReadErrorPropagated ==
    (C11_ReadFailsBelowCeiling /\ pc \notin {"start", "read"}) =>
        /\ ret.returned
        /\ ret.err = readError
        /\ calls = <<"Read">>
        /\ ~validation.called
        /\ \A i \in 1..Len(logs) : logs[i].msg # msgValidationFailed
        /\ resp = Received(upstream)
        /\ pc = "delivered" => client = BadGateway

C11_Witness ==
    /\ C11_ReadFailsBelowCeiling
    /\ upstream.Len = maxSize
    /\ vp.mode = ModeStrict
    /\ pc = "delivered"
    /\ client = BadGateway

(***************************************************************************)
(* C12 as stated.  In Strict mode, a validation failure with detail        *)
(* "field 'id' required" gives the client status 500 and the body          *)
(* {"error":"Response validation failed","details":"field 'id' required"}, *)
(* the key "error" first.                                                  *)
(***************************************************************************)
fieldIdRequired == <<"f","i","e","l","d"," ","'","i","d","'"," ","r","e","q","u","i","r","e","d">>

C12_StrictFailure(d) ==
    /\ pc = "delivered"
    /\ vp.mode = ModeStrict
    /\ ValidationFailed
    /\ validation.err.msg = d

C12_ErrorThenDetails ==
    C12_StrictFailure(fieldIdRequired) =>
        /\ client.StatusCode = 500
        /\ client.Body = Literal(
             <<"{","\"","e","r","r","o","r","\"",":","\"">> \o msgValidationFailed
             \o <<"\"",",","\"","d","e","t","a","i","l","s","\"",":","\"">>
             \o fieldIdRequired \o <<"\"","}">>)

(***************************************************************************)
(* C12.  In Strict mode, a validation failure with detail text d gives the *)
(* client status 500 and a body that is one JSON object with exactly the   *)
(* two members "details", holding d, and "error", holding the fixed label  *)
(* "Response validation failed", written in that (sorted) order; for       *)
(* d = "field 'id' required" the body is exactly                           *)
(* {"details":"field 'id' required","error":"Response validation failed"}. *)
(***************************************************************************)
C12_DetailsThenError ==
    /\ \A v \in Violations :
        C12_StrictFailure(v.msg) =>
            /\ client.StatusCode = 500
            /\ client.Body = Literal(
                 <<"{","\"","d","e","t","a","i","l","s","\"",":">> \o JsonString(v.msg)
                 \o <<",","\"","e","r","r","o","r","\"",":","\"">>
                 \o msgValidationFailed \o <<"\"","}">>)
    /\ C12_StrictFailure(fieldIdRequired) =>
            client.Body = Literal(
                 <<"{","\"","d","e","t","a","i","l","s","\"",":","\"">> \o fieldIdRequired
                 \o <<"\"",",","\"","e","r","r","o","r","\"",":","\"">>
                 \o msgValidationFailed \o <<"\"","}">>)

C12_Witness ==
    /\ C12_StrictFailure(fieldIdRequired)
    /\ client.StatusCode = 500
    /\ upstream.StatusCode = 200

(***************************************************************************)
(* C13.  parseMode returns ModeStrict, ModeWarn or ModeReport and no error *)
(* for every spelling of "strict", "warn" or "report" in upper- and        *)
(* lower-case letters, and an error together with the empty mode for every *)
(* other string, the empty string included.                                *)
(***************************************************************************)
C13_Canonical(mode) ==
    IF mode \in CaseVariants(<<"s","t","r","i","c","t">>) THEN <<"s","t","r","i","c","t">>
    ELSE IF mode \in CaseVariants(<<"w","a","r","n">>) THEN <<"w","a","r","n">>
    ELSE IF mode \in CaseVariants(<<"r","e","p","o","r","t">>) THEN <<"r","e","p","o","r","t">>
    ELSE <<>>

C13_ParseMode ==
    (fn.op = "parseMode" /\ fn.done) =>
        /\ fn.result.mode = C13_Canonical(fn.arg)
        /\ fn.result.err.nil <=> C13_Canonical(fn.arg) # <<>>
        /\ fn.result.mode \in {ModeStrict, ModeWarn, ModeReport, <<>>}

C13_Witness ==
    /\ fn.op = "parseMode" /\ fn.done
    /\ fn.arg = <<"s","T","r","I","c","T">>
    /\ fn.result = [mode |-> ModeStrict, err |-> NilError]

(***************************************************************************)
(* C20.  isUndocumentedEndpoint returns true for an error whose message    *)
(* holds one of the six phrasings in any spelling of upper- and lower-case *)
(* letters, anywhere in the message, and false for a nil error, for an     *)
(* empty message and for every message holding none of them.               *)
(***************************************************************************)
C20_Classification ==
    (fn.op = "isUndocumentedEndpoint" /\ fn.done) =>
        /\ fn.arg \in UndocumentedErrors => fn.result = TRUE
        /\ fn.arg \in OtherErrors \cup {NilError} => fn.result = FALSE

C20_Witness ==
    /\ fn.op = "isUndocumentedEndpoint" /\ fn.done
    /\ fn.arg = Error(<<"r","o","u","t","e","r",":"," ">>
                      \o <<"u","N","k","N","o","W","n"," ","p","A","t","H">>)
    /\ fn.result = TRUE

(***************************************************************************)
(* C14.  NewValidatingProxy returns an error and no proxy when the mode    *)
(* string is no spelling of strict, warn or report (the mode's error, even *)
(* when the contract would not load either) or when the upstream URL does  *)
(* not parse; a proxy that exists has one of the three modes; and while    *)
(* it handles responses its mode, upstream target and router stay as       *)
(* constructed.                                                            *)
(***************************************************************************)
C14_RecognizedMode ==
    args.mode \in CaseVariants(<<"s","t","r","i","c","t">>)
        \cup CaseVariants(<<"w","a","r","n">>)
        \cup CaseVariants(<<"r","e","p","o","r","t">>)

C14_Constructed ==
    pc # "new" =>
        /\ (~C14_RecognizedMode \/ ~args.upstreamURL.parses) =>
                ~newErr.nil /\ ~vp.exists
        /\ ~C14_RecognizedMode =>
                newErr = Error(invalidModePrefix \o args.mode \o invalidModeSuffix)
        /\ vp.exists <=> newErr.nil
        /\ vp.exists =>
            /\ vp.mode \in {<<"s","t","r","i","c","t">>, <<"w","a","r","n">>,
                            <<"r","e","p","o","r","t">>}
            /\ vp.mode = ToLower(args.mode)
            /\ vp.upstream = args.upstreamURL.text

C14_ProxyConfiguration ==
    /\ []C14_Constructed
    /\ [][vp.exists => vp' = vp]_vars

C14_Witness ==
    /\ pc = "delivered"
    /\ args.mode = <<"W","a","R","n">>
    /\ vp.exists
    /\ vp.mode = ModeWarn
    /\ ValidationFailed

(***************************************************************************)
(* C15.  Once the hook has buffered the body B of a JSON response (within  *)
(* the ceiling, read without error), resp.Body is a reader over B of its   *)
(* own; the validator is handed another reader over B and reads exactly B; *)
(* and unless the response is rewritten (Strict mode, failed validation),  *)
(* the client is delivered exactly B whatever the validator has read: on   *)
(* the undocumented, the passed and the failed Warn/Report paths.          *)
(***************************************************************************)
C15_Buffered ==
    /\ UpstreamIsJSON
    /\ ~DeclaredOverCeiling
    /\ ~BodyOverCeiling
    /\ ~upstream.Fails
    /\ pc \in {"findRoute", "validate", "validating", "returned", "delivered"}

C15_Rewritten == vp.mode = ModeStrict /\ ValidationFailed

C15_IndependentReaders ==
    C15_Buffered =>
        /\ bodyBytes = UpstreamBody(upstream)
        /\ ~C15_Rewritten =>
            /\ resp.Body.kind = "bytes"
            /\ resp.Body.id # StreamBody.id
            /\ resp.Body.bytes = UpstreamBody(upstream)
        /\ validation.called =>
            /\ validation.reader.id # resp.Body.id
            /\ validation.reader.bytes = UpstreamBody(upstream)
        /\ validation.returned => validation.body = UpstreamBody(upstream)
        /\ (pc = "delivered" /\ client.got = "response" /\ ~C15_Rewritten) =>
                client.Body = UpstreamBody(upstream)

C15_Witness ==
    /\ C15_Buffered
    /\ upstream.Len = maxSize
    /\ vp.mode = ModeReport
    /\ ValidationFailed
    /\ validation.body = UpstreamBody(upstream)
    /\ pc = "delivered"
    /\ client.Body = UpstreamBody(upstream)

(***************************************************************************)
(* C18.  For every response the hook reads the body, resolves the route,   *)
(* calls the validator and enforces, in this order, each at most once, and *)
(* stops at the first stage that skips: the route is resolved only with    *)
(* the body of an eligible response buffered within the ceiling, the       *)
(* validator is called only after the router returned a route, and the     *)
(* failure is logged or the response rewritten only after the validator    *)
(* returned an error.                                                      *)
(***************************************************************************)
C18_Called(stage) == \E i \in 1..Len(calls) : calls[i] = stage

C18_Enforced ==
    \/ resp.Body.id = "errorBody"
    \/ resp.StatusCode # upstream.StatusCode
    \/ resp.Header # upstream.Header
    \/ \E i \in 1..Len(logs) : logs[i].msg = msgValidationFailed

C18_StageOrder ==
    /\ \E n \in 0..3 : calls = SubSeq(<<"Read", "FindRoute", "ValidateResponse">>, 1, n)
    /\ C18_Called("Read") => UpstreamIsJSON /\ ~DeclaredOverCeiling
    /\ C18_Called("FindRoute") =>
        /\ ~upstream.Fails /\ ~BodyOverCeiling
        /\ bodyBytes = UpstreamBody(upstream)
        /\ ByteLen(bodyBytes) <= maxSize
    /\ C18_Called("ValidateResponse") =>
        /\ vp.router # "nil"
        /\ routeErr.nil
        /\ validation.called
    /\ validation.called => C18_Called("ValidateResponse")
    /\ C18_Enforced => validation.returned /\ ~validation.err.nil
    /\ (HookReturned /\ ~validation.returned) => ~C18_Called("ValidateResponse")

C18_Witness ==
    /\ calls = <<"Read", "FindRoute", "ValidateResponse">>
    /\ C18_Enforced
    /\ vp.mode = ModeStrict
    /\ pc = "delivered"

(***************************************************************************)
(* C19 as stated.  For every response the hook reads at most maxSize+1     *)
(* bytes of the body stream, holds at most maxSize+1 body bytes, and ends  *)
(* by returning.                                                           *)
(***************************************************************************)
C19_BoundedRead ==
    /\ streamPos <= maxSize + 1
    /\ ByteLen(bodyBytes) <= maxSize + 1
    /\ (upstream.Len = Endless /\ C18_Called("Read")) =>
            streamPos = maxSize + 1 /\ HookReturned

C19_BoundedAndReturns ==
    /\ C19_BoundedRead
    /\ pc # "panicked"

(***************************************************************************)
(* C16.  WithAttrs returns a new handler whose attributes are the          *)
(* receiver's followed by the supplied ones, with the receiver's output    *)
(* and level; and no handler's attributes, output or level ever change     *)
(* afterwards, whatever is derived from it or from a handler derived from  *)
(* the same base.                                                          *)
(***************************************************************************)
C16_Attrs(i) == Elements(arrays, handlers[i].h.attrs)

C16_Derived ==
    \A i \in 1..Len(handlers) :
        IF handlers[i].parent = 0
        THEN C16_Attrs(i) = <<>>
        ELSE /\ handlers[i].parent < i
             /\ C16_Attrs(i) = C16_Attrs(handlers[i].parent) \o handlers[i].added
             /\ handlers[i].h.output = handlers[handlers[i].parent].h.output
             /\ handlers[i].h.level = handlers[handlers[i].parent].h.level

C16_Unaltered ==
    \A i \in 1..Len(handlers) :
        /\ i <= Len(handlers')
        /\ Elements(arrays', handlers'[i].h.attrs) = C16_Attrs(i)
        /\ handlers'[i].h.output = handlers[i].h.output
        /\ handlers'[i].h.level = handlers[i].h.level

C16_WithAttrs ==
    /\ []C16_Derived
    /\ [][C16_Unaltered]_vars

C16_Witness ==
    \E i, j \in 1..Len(handlers) :
        /\ i # j
        /\ handlers[i].parent = handlers[j].parent
        /\ handlers[i].parent > 1
        /\ handlers[i].added # handlers[j].added
        /\ Len(handlers[i].added) = 1 /\ Len(handlers[j].added) = 1
        /\ Len(C16_Attrs(handlers[i].parent)) = 3

(***************************************************************************)
(* C17.  Every line a handler writes is: the gray code and the timestamp,  *)
(* a space, the level's color (Error red, Warn yellow, Info green, Debug   *)
(* blue) and the level's name, the reset code, a space, the message, then  *)
(* " key=value" for each attribute of the record in call order, then for   *)
(* each attribute bound to the handler, those of its oldest ancestor       *)
(* first, and a newline.                                                   *)
(***************************************************************************)
\* the attributes bound along the derivations that led to handler i
RECURSIVE C17_Bound(_)
C17_Bound(i) ==
    IF handlers[i].parent = 0 THEN <<>>
    ELSE C17_Bound(handlers[i].parent) \o handlers[i].added

RECURSIVE C17_KeyValues(_)
C17_KeyValues(attrs) ==
    IF attrs = <<>> THEN <<>>
    ELSE C17_KeyValues(SubSeq(attrs, 1, Len(attrs) - 1))
            \o <<" ", attrs[Len(attrs)].key, "=">> \o attrs[Len(attrs)].text

C17_Color(level) ==
    IF level = <<"E","R","R","O","R">> THEN "\\033[31m"
    ELSE IF level = <<"W","A","R","N">> THEN "\\033[33m"
    ELSE IF level = <<"I","N","F","O">> THEN "\\033[32m"
    ELSE "\\033[34m"

C17_FourLevels ==
    {<<"E","R","R","O","R">>, <<"W","A","R","N">>, <<"I","N","F","O">>,
     <<"D","E","B","U","G">>}

C17_LineFormat ==
    \A k \in 1..Len(output) :
        LET w == output[k]
        IN  w.record.level \in C17_FourLevels =>
                w.line = <<"\\033[90m">> \o w.now \o <<" ">>
                         \o <<C17_Color(w.record.level)>> \o w.record.level
                         \o <<"\\033[0m">> \o <<" ">> \o w.record.msg
                         \o C17_KeyValues(w.record.attrs)
                         \o C17_KeyValues(C17_Bound(w.handler))
                         \o <<"\n">>

C17_Witness ==
    /\ output # <<>>
    /\ output[1].record.level = LevelError
    /\ Len(output[1].record.attrs) = 2
    /\ handlers[output[1].handler].parent > 1
    /\ Len(C17_Bound(output[1].handler)) = 3

(***************************************************************************)
(* C21 as stated.  A proxy that NewValidatingProxy returned without error  *)
(* holds a router: when building the router from the contract fails,       *)
(* construction fails, and no hook of a constructed proxy calls FindRoute  *)
(* on a nil router.                                                        *)
(***************************************************************************)
C21_RouterUsable ==
    pc # "new" =>
        /\ (newErr.nil /\ vp.exists) => vp.router # "nil"
        /\ ~args.routerBuilds => ~newErr.nil /\ ~vp.exists
        /\ C18_Called("FindRoute") => vp.router # "nil"
        /\ pc # "panicked"

====
